---------------------------- MODULE Spec2Model ----------------------------
(***************************************************************************)
(* europacli-sms: the dispatch engine (send_numbers), the history store    *)
(* (load_history / prune_history / append_history) and the lookups that    *)
(* read the store (history_candidates), as a state machine.                *)
(*                                                                         *)
(* One run of send_numbers is modelled step by step: the head of the       *)
(* recipient loop, one action per Transport attempt, the tail of the       *)
(* recipient loop, one action per skipped recipient, the final prune.      *)
(* Python indices are kept 0-based (i, j, idx, attempt); TLA+ sequences    *)
(* are 1-based, hence the "+ 1" where a list is indexed.                   *)
(***************************************************************************)
EXTENDS Integers, Sequences, FiniteSets, TLC

(* ------------------------------ bounds -------------------------------- *)
\* short batches: 0 .. MaxShort recipients
MaxShort == 5
\* long batches: FAIL_LIMIT + MaxExtra recipients
MaxExtra == 5
\* channel pools of 0 .. MaxChannels modems (short batches)
MaxChannels == 3
\* short batches that take at most MaxCalls Transport calls
MaxCalls == 10
\* channel pools of 1 .. MaxLongChannels modems (long batches)
MaxLongChannels == 2
\* per run: Transport results that differ from the prevailing one, plus
\* environment faults (an exception raised, an I/O error)
MaxDeviations == 1
MaxDelayBatch == 3
MaxRecords == 3
MaxModems == 2
MaxScans == 2

(* -------------------------- program constants ------------------------- *)
FAIL_LIMIT == 10
HISTORY_RETENTION_DAYS == 7

\* the clock reading of the run, in days (datetime.now())
Today == 20
\* a "ts" that is missing or that parse_ts cannot read
NoTs == -1

\* raw device identifiers and the section names str(i + 1) of send_flow
DeviceNames == << "/dev/ttyUSB0", "/dev/ttyUSB1", "/dev/ttyUSB2",
                  "/dev/ttyUSB3", "/dev/ttyUSB4", "/dev/ttyUSB5" >>
SectionNames == << "1", "2", "3", "4", "5", "6" >>
\* build_modem_labels: "Modem <idx>"
LabelNames == << "Modem 1", "Modem 2", "Modem 3", "Modem 4", "Modem 5", "Modem 6" >>

build_modem_labels(devs) ==
    [d \in {devs[k] : k \in 1..Len(devs)} |->
        LabelNames[CHOOSE k \in 1..Len(devs) : devs[k] = d]]

VARIABLES
    recipients,        \* the batch: recipients[p] is the address at position p - 1
    sections,          \* gammu sections, one per selected modem
    devices,           \* raw identifiers of the selected modems
    policy,            \* delay_sec, random_delay_enabled, random_delay_{min,max}_sec
    base,              \* per modem, the Transport's prevailing result in this run
    history,           \* the lines of the history file
    tmpfile,           \* the lines of the history file's ".tmp" sibling
    pc,                \* position of send_numbers
    i, attempt, ok, ok_count, failed, stop_index, j,
    status_list, recipient_modems, modem_status, report_records,
    trace,             \* calls made to the collaborators, in program order
    candidates,        \* what history_candidates returned after the run
    kept,              \* what the last call of prune_history returned
    stats_records,     \* the records build_report is called with
    stats,             \* what build_report returned
    fs,                \* the serial devices and their names under /dev
    scans,             \* the calls of scan_devices so far, with their results
    selected_cfg,      \* cfg["selected_devices"]
    selected,          \* what resolve_selected_devices returned
    flow,              \* send_flow: its attempt counter, total_ok and outcome
    api,               \* the handler of the history API: position and records
    auto_cfg,          \* cfg["auto_activate_on_start"] and cfg["init_at_commands"]
    auto_activated_real, \* main's set of the devices activated so far
    ticks,             \* the calls of auto_activate_devices so far
    flips, faults,     \* deviations and faults so far
    exc                \* the exception send_numbers ended with ("" = none)

vars == << recipients, sections, devices, policy, base, history, tmpfile, pc,
           i, attempt, ok, ok_count, failed, stop_index, j,
           status_list, recipient_modems, modem_status, report_records,
           trace, candidates, kept, stats_records, stats,
           fs, scans, selected_cfg, selected, flow, api, auto_cfg,
           auto_activated_real, ticks, flips, faults, exc >>

\* the variables of device discovery
scan_vars == << fs, scans, selected_cfg, selected >>

\* the variables of automatic activation
auto_vars == << auto_cfg, auto_activated_real, ticks >>

\* the variables of send_flow, of the history API and of activation
more_vars == << flow, api, auto_vars >>

\* the variables of the report
report_vars == << stats_records, stats >>

\* what a run never changes: its arguments and the Transport's disposition
args == << recipients, sections, devices, policy, base >>

total_modems == Len(sections)
NumRecipients == Len(recipients)

(* ------------------------------ records ------------------------------- *)
\* a parsed line of the history file; kind "rec" is a JSON object,
\* "nondict" a JSON value that is no object, "garbage" a line json.loads rejects
Line(kind, ts, number, status, device, section) ==
    [kind |-> kind, ts |-> ts, number |-> number, status |-> status,
     device |-> device, section |-> section]

SendRecord(ts, number, status, device, section) ==
    Line("rec", ts, number, status, device, section)

\* a skipped record that looks like a failure on no modem
SkippedRecordUnmarked(ts, number) ==
    SendRecord(ts, number, "FAIL", "-", "-")

\* lines 717-727: the synthetic record of a skipped recipient
SkippedRecord(ts, number) ==
    SendRecord(ts, number, "FAIL", "SKIPPED_FAIL_LIMIT", "-")

Ev(e, r, x, y, z) == [ev |-> e, i |-> r, x |-> x, y |-> y, z |-> z]


(* ---------------------------- history store --------------------------- *)
\* parse_ts: None for a missing or unreadable value, else the time it denotes
parse_ts(value) == IF value = NoTs THEN NoTs ELSE value

\* load_history: every line json.loads accepts, in file order; [] when the
\* file cannot be read
load_history(lines, readFails) ==
    IF readFails THEN << >>
    ELSE SelectSeq(lines, LAMBDA l : l.kind # "garbage")

\* rec.get("ts") raises AttributeError on a parsed line that is no object
PruneRaises(records) == \E k \in 1..Len(records) : records[k].kind = "nondict"

InWindow(rec, now, max_days) ==
    LET ts == parse_ts(rec.ts) IN ts # NoTs /\ ts >= now - max_days

\* prune_history, lines 385-390: the records kept
PruneKept(records, now, max_days) ==
    SelectSeq(records, LAMBDA r : InWindow(r, now, max_days))

\* append_history: one more line at the end, or nothing on an I/O error
append_history(lines, record, fails) ==
    IF fails THEN lines ELSE Append(lines, record)

\* rec.get("number") or "": the number of a record, NoNumber for none
NoNumber == 0

\* a scan that reads the file from its first line
Unreversed(s) == s

\* line 1366: reversed(records)
Reversed(s) == [k \in 1..Len(s) |-> s[Len(s) + 1 - k]]

\* lines 1366-1371: the loop over the records, from position k on
RECURSIVE ScanCandidates(_, _, _, _)
ScanCandidates(rs, k, order, latest) ==
    IF k > Len(rs) THEN [order |-> order, latest |-> latest]
    ELSE LET number == rs[k].number
         IN  IF number = NoNumber \/ number \in DOMAIN latest
             THEN ScanCandidates(rs, k + 1, order, latest)
             ELSE ScanCandidates(rs, k + 1, Append(order, number),
                                 latest @@ (number :> rs[k]))

\* history_candidates: (order, latest), and whether rec.get raised on a
\* parsed line that is no object
history_candidates(lines, readFails) ==
    LET records == load_history(lines, readFails)
        r       == ScanCandidates(Reversed(records), 1, << >>, << >>)
    IN  IF PruneRaises(records)
        THEN [listed |-> FALSE, read |-> ~readFails, order |-> << >>,
              latest |-> << >>]
        ELSE [listed |-> TRUE, read |-> ~readFails, order |-> r.order,
              latest |-> r.latest]

\* history_candidates has not been called
NotListed == [listed |-> FALSE, read |-> FALSE, order |-> << >>, latest |-> << >>]

(* ------------------------------ delay --------------------------------- *)
Max2(a, b) == IF a >= b THEN a ELSE b

\* lines 689-702: the durations time.sleep may be called with ({} = no sleep)
PauseChoices(p) ==
    IF p.random_delay_enabled
    THEN LET mn == Max2(p.random_delay_min_sec, 0)
             mx == Max2(p.random_delay_max_sec, mn)
         IN  IF mx > 0 THEN mn..mx ELSE {}
    ELSE IF p.delay_sec > 0 THEN {p.delay_sec} ELSE {}

(* --------------------------- send_numbers ----------------------------- *)
num == recipients[i + 1]

\* line 623
start_idx == IF total_modems # 0 THEN i % total_modems ELSE 0

\* a failover that forgets where the recipient started
ChannelIndexNoStart(start, k, n) == IF n # 0 THEN k % n ELSE 0

\* line 626
ChannelIndex(start, k, n) == IF n # 0 THEN (start + k) % n ELSE 0

idx == ChannelIndex(start_idx, attempt, total_modems)

\* line 629
current_modem_label == build_modem_labels(devices)[devices[idx + 1]]

\* what one pass through the body of the attempt loop can meet:
\*   cb: the progress callback returns or raises
\*   tx: send_sms returns ok, returns a failure, or raises
\*   lg: log_event returns or raises
\*   ap: the append to the history file succeeds or fails
AttemptOutcomes ==
    { o \in [cb : {"ok", "raise"}, tx : {"ok", "fail", "raise", "-"},
             lg : {"ok", "raise", "-"}, ap : {"ok", "fail", "-"}] :
        /\ (o.cb = "raise") = (o.tx = "-")
        /\ (o.tx \in {"raise", "-"}) = (o.lg = "-")
        /\ (o.lg \in {"raise", "-"}) = (o.ap = "-") }

FaultCost(o) ==
    (IF o.cb = "raise" THEN 1 ELSE 0) + (IF o.tx = "raise" THEN 1 ELSE 0)
    + (IF o.lg = "raise" THEN 1 ELSE 0) + (IF o.ap = "fail" THEN 1 ELSE 0)

FlipCost(o) ==
    IF o.tx \in {"ok", "fail"} /\ (o.tx = "ok") # base[devices[idx + 1]] THEN 1 ELSE 0

\* the run has room for c more deviations
Affordable(c) == flips + faults + c <= MaxDeviations

Raised(o) == o.cb = "raise" \/ o.tx = "raise" \/ o.lg = "raise"

\* lines 617-624: the head of the recipient loop
BeginRecipient ==
    /\ pc = "recipient"
    /\ UNCHANGED << candidates, kept, report_vars, scan_vars, more_vars >>
    /\ status_list' = [status_list EXCEPT ![i + 1] = "ENVIANDO"]
    /\ ok' = FALSE
    /\ attempt' = 0
    /\ pc' = "attempt"
    /\ UNCHANGED << args, history, tmpfile, i, ok_count, failed, stop_index, j,
                    recipient_modems, modem_status, report_records, trace,
                    flips, faults, exc >>

\* lines 656-666
AttemptRecord(ok_try) ==
    SendRecord(Today, num, IF ok_try THEN "OK" ELSE "FAIL",
               devices[idx + 1], sections[idx + 1])

\* a failover that gives up one channel early
AttemptLimitShort == Max2(total_modems - 1, 1)

\* line 625: range(max(total_modems, 1))
AttemptLimit == Max2(total_modems, 1)

\* lines 626-672: one pass through the body of the attempt loop
Attempt ==
    /\ pc = "attempt"
    /\ UNCHANGED << candidates, kept, report_vars, scan_vars, more_vars >>
    /\ IF total_modems = 0
       THEN \* sections[idx] raises IndexError
            /\ pc' = "raised"
            /\ exc' = "IndexError"
            /\ UNCHANGED << args, history, tmpfile, i, attempt, ok, ok_count,
                            failed, stop_index, j, status_list, recipient_modems,
                            modem_status, report_records, trace, flips, faults >>
       ELSE \E o \in AttemptOutcomes :
            LET ok_try == o.tx = "ok"
                device == devices[idx + 1]
                record == AttemptRecord(ok_try)
                cbEv   == << Ev("cb", i, i, ok_count, Len(failed)) >>
                txEv   == IF o.cb = "ok"
                          THEN << Ev("send", i, idx,
                                     CASE o.tx = "ok" -> 1 [] o.tx = "fail" -> 0
                                       [] OTHER -> 2, attempt) >>
                          ELSE << >>
                apEv   == IF o.ap # "-"
                          THEN << Ev("append", i, idx,
                                     IF o.ap = "ok" THEN 1 ELSE 0, attempt) >>
                          ELSE << >>
            IN  /\ Affordable(FaultCost(o) + FlipCost(o))
                /\ faults' = faults + FaultCost(o)
                /\ flips' = flips + FlipCost(o)
                /\ recipient_modems' =
                       [recipient_modems EXCEPT ![i + 1] = current_modem_label]
                /\ modem_status' =
                       [modem_status EXCEPT ![device] =
                           IF o.lg = "ok" THEN (IF ok_try THEN "OK" ELSE "FAIL")
                           ELSE "ENVIANDO"]
                /\ trace' = trace \o cbEv \o txEv \o apEv
                /\ ok_count' = IF ok_try THEN ok_count + 1 ELSE ok_count
                /\ history' = IF o.ap = "-" THEN history
                              ELSE append_history(history, record, o.ap = "fail")
                /\ report_records' = IF o.ap = "-" THEN report_records
                                     ELSE Append(report_records, record)
                /\ ok' = (~Raised(o) /\ ok_try)
                /\ attempt' = IF Raised(o) \/ ok_try THEN attempt ELSE attempt + 1
                /\ pc' = IF Raised(o) THEN "raised"
                         ELSE IF ok_try \/ attempt + 1 >= AttemptLimit THEN "finish"
                         ELSE "attempt"
                /\ exc' = CASE o.cb = "raise" -> "progress_cb"
                            [] o.tx = "raise" -> "send_sms"
                            [] o.lg = "raise" -> "log_event"
                            [] OTHER -> exc
                /\ UNCHANGED << args, tmpfile, i, failed, stop_index, j,
                                status_list >>


\* a list of failures that takes every processed recipient
NextFailedAlways(fl, sent, number) == Append(fl, number)

\* lines 673-674
NextFailed(fl, sent, number) == IF sent THEN fl ELSE Append(fl, number)

\* a tail of the recipient that leaves its status as it is
StatusLeftSending(sent) == "ENVIANDO"

\* line 676
FinalStatus(sent) == IF sent THEN "OK" ELSE "FAIL"

\* a limit that is reached one failure late
TrippedLate(nfailed) == nfailed > FAIL_LIMIT

\* line 703
Tripped(nfailed) == nfailed >= FAIL_LIMIT

\* a run that resumes one recipient too late after the limit is reached
StopIndexLate(r) == r + 2

\* line 704
StopIndex(r) == r + 1

\* a loop that takes no recipient for the last one
IsLastNever(r, n) == FALSE

\* line 688: recipient r is the last of a batch of n
IsLast(r, n) == ~(r < n - 1)

\* lines 673-705 and the exit of the recipient loop: the tail of one recipient
FinishRecipient ==
    /\ pc = "finish"
    /\ UNCHANGED << candidates, kept, report_vars, scan_vars, more_vars >>
    /\ \E cb \in {"ok", "raise"} :
       LET failed1 == NextFailed(failed, ok, num)
           cbEv    == << Ev("cb", i, i + 1, ok_count, Len(failed1)) >>
           raised  == cb = "raise"
           cost    == IF raised THEN 1 ELSE 0
           last    == IsLast(i, NumRecipients)
           pauses  == IF last THEN {} ELSE PauseChoices(policy)
           tripped == Tripped(Len(failed1))
           stop    == IF tripped THEN StopIndex(i) ELSE NumRecipients
       IN  /\ Affordable(cost)
           /\ faults' = faults + cost
           /\ failed' = failed1
           /\ status_list' =
                  [status_list EXCEPT ![i + 1] = FinalStatus(ok)]
           /\ exc' = IF raised THEN "progress_cb" ELSE exc
           /\ IF raised
              THEN /\ trace' = trace \o cbEv
                   /\ pc' = "raised"
                   /\ UNCHANGED << i, stop_index, j >>
              ELSE /\ \E d \in (IF pauses = {} THEN {0} ELSE pauses) :
                        trace' = trace \o cbEv \o
                                 (IF pauses = {} THEN << >>
                                  ELSE << Ev("sleep", i, d, 0, 0) >>)
                   /\ IF ~tripped /\ ~last
                      THEN /\ i' = i + 1
                           /\ pc' = "recipient"
                           /\ UNCHANGED << stop_index, j >>
                      ELSE /\ stop_index' = stop
                           /\ j' = stop
                           /\ pc' = IF stop < NumRecipients THEN "skip" ELSE "prune"
                           /\ UNCHANGED i
    /\ UNCHANGED << args, history, tmpfile, attempt, ok, ok_count,
                    recipient_modems, modem_status, report_records, flips >>

\* lines 709-741: one recipient left over when the failure limit stopped the run
SkipRecipient ==
    /\ pc = "skip"
    /\ UNCHANGED << candidates, kept, report_vars, scan_vars, more_vars >>
    /\ \E ap \in {"ok", "fail"}, cb \in {"ok", "raise"} :
       LET record == SkippedRecord(Today, recipients[j + 1])
           cost   == (IF ap = "fail" THEN 1 ELSE 0) + (IF cb = "raise" THEN 1 ELSE 0)
       IN  /\ Affordable(cost)
           /\ faults' = faults + cost
           /\ status_list' = [status_list EXCEPT ![j + 1] = "FAIL"]
           /\ recipient_modems' = [recipient_modems EXCEPT ![j + 1] = "SKIPPED"]
           /\ history' = append_history(history, record, ap = "fail")
           /\ report_records' = Append(report_records, record)
           /\ trace' = trace \o
                  << Ev("append", j, -1, IF ap = "ok" THEN 1 ELSE 0, 0),
                     Ev("cb", j, j + 1, ok_count, Len(failed)) >>
           /\ exc' = IF cb = "raise" THEN "progress_cb" ELSE exc
           /\ IF cb = "raise"
              THEN pc' = "raised" /\ j' = j
              ELSE /\ j' = j + 1
                   /\ pc' = IF j + 1 < NumRecipients THEN "skip" ELSE "prune"
    /\ UNCHANGED << args, tmpfile, i, attempt, ok, ok_count, failed, stop_index,
                    modem_status, flips >>

\* a prune that rewrites the history file in place
prune_history_in_place(lines, tmp, now, max_days, io, cut) ==
    LET records == load_history(lines, io = "read_fail")
        kp      == PruneKept(records, now, max_days)
    IN  IF PruneRaises(records)
        THEN [history |-> lines, tmpfile |-> tmp, raised |-> TRUE, kept |-> << >>]
        ELSE IF io = "write_fail"
        THEN [history |-> SubSeq(kp, 1, cut), tmpfile |-> tmp,
              raised |-> FALSE, kept |-> kp]
        ELSE [history |-> kp, tmpfile |-> tmp, raised |-> FALSE, kept |-> kp]

\* prune_history(): what it leaves in the history file and in the .tmp file,
\* and whether it raises; io is what the file system does to it
prune_history(lines, tmp, now, max_days, io, cut) ==
    LET records == load_history(lines, io = "read_fail")
        kp      == PruneKept(records, now, max_days)
    IN  IF PruneRaises(records)
        THEN [history |-> lines, tmpfile |-> tmp, raised |-> TRUE, kept |-> << >>]
        ELSE IF io = "write_fail"
        THEN [history |-> lines, tmpfile |-> SubSeq(kp, 1, cut),
              raised |-> FALSE, kept |-> kp]
        ELSE [history |-> kp, tmpfile |-> tmp, raised |-> FALSE, kept |-> kp]

\* how many records the .tmp file holds when writing it fails
PruneCuts(lines, now, max_days, io) ==
    IF io = "write_fail"
    THEN 0..Len(PruneKept(load_history(lines, FALSE), now, max_days))
    ELSE {0}

\* lines 742-743: the final prune and the return of (ok_count, failed)
PruneAndReturn ==
    /\ pc = "prune"
    /\ UNCHANGED << candidates, report_vars, scan_vars, more_vars >>
    /\ \E io \in {"ok", "read_fail", "write_fail"} :
       LET cost == IF io = "ok" THEN 0 ELSE 1
       IN  /\ Affordable(cost)
           /\ faults' = faults + cost
           /\ \E cut \in PruneCuts(history, Today, HISTORY_RETENTION_DAYS, io) :
              LET r == prune_history(history, tmpfile, Today,
                                     HISTORY_RETENTION_DAYS, io, cut)
              IN  /\ history' = r.history
                  /\ tmpfile' = r.tmpfile
                  /\ kept' = IF r.raised THEN kept ELSE r.kept
                  /\ pc' = IF r.raised THEN "raised" ELSE "done"
                  /\ exc' = IF r.raised THEN "prune_history" ELSE exc
    /\ UNCHANGED << args, i, attempt, ok, ok_count, failed, stop_index, j,
                    status_list, recipient_modems, modem_status, report_records,
                    trace, flips >>

\* resend_from_history (line 1375) after a run: history_candidates()
HistoryCandidates ==
    /\ pc = "done"
    /\ ~candidates.listed
    /\ UNCHANGED << kept, report_vars, scan_vars, more_vars >>
    /\ \E rd \in {"ok", "read_fail"} :
       LET r == history_candidates(history, rd = "read_fail")
       IN  /\ candidates' = r
           /\ pc' = IF r.listed THEN "done" ELSE "raised"
           /\ exc' = IF r.listed THEN exc ELSE "history_candidates"
    /\ UNCHANGED << args, history, tmpfile, i, attempt, ok, ok_count, failed,
                    stop_index, j, status_list, recipient_modems, modem_status,
                    report_records, trace, flips, faults >>

(* ---------------------------- discovery ------------------------------- *)
\* A name under /dev. ns is its directory: "by-path" and "by-path-v2" for
\* /dev/serial/by-path/...-usb-0:<dev>:1.<iface>-port0 and its usbv2- twin,
\* "by-id" for /dev/serial/by-id/usb-<dev>-if<iface>-port0 (iface written
\* with two digits), "tty" for /dev/ttyUSB<iface> (dev is 0 there).
Endpoint(ns, dev, iface) == [ns |-> ns, dev |-> dev, iface |-> iface]

\* the serial interfaces plugged in: << device, interface number >>
Ports(hw) == UNION { { << d, f >> : f \in hw[d] } : d \in DOMAIN hw }

PortLess(p, q) == p[1] < q[1] \/ (p[1] = q[1] /\ p[2] < q[2])

\* the number the kernel gave a port: in the order of the ports, or in the
\* reverse order after the devices were enumerated anew
TtyNumber(f, port) ==
    LET ps   == Ports(f.hw)
        rank == Cardinality({q \in ps : PortLess(q, port)})
    IN  IF f.renumbered THEN Cardinality(ps) - 1 - rank ELSE rank

\* glob() of one directory
Glob(f, ns) ==
    CASE ns = "by-path" ->
             IF f.mode \in {"by-path", "by-path-dup"}
             THEN {Endpoint(ns, p[1], p[2]) : p \in Ports(f.hw)} ELSE {}
      [] ns = "by-path-v2" ->
             IF f.mode \in {"by-path-dup", "by-path-v2"}
             THEN {Endpoint(ns, p[1], p[2]) : p \in Ports(f.hw)} ELSE {}
      [] ns = "by-id" ->
             IF f.mode = "by-id"
             THEN {Endpoint(ns, p[1], p[2]) : p \in Ports(f.hw)} ELSE {}
      [] OTHER -> {Endpoint("tty", 0, TtyNumber(f, p)) : p \in Ports(f.hw)}

\* device_real (lines 191-198, not Windows): os.path.realpath follows a link
\* to the tty it points to and leaves every other path as it is
device_real(f, e) ==
    IF e.ns # "tty" /\ e \in Glob(f, e.ns)
    THEN Endpoint("tty", 0, TtyNumber(f, << e.dev, e.iface >>))
    ELSE e

\* the digits of a number as they stand in a path
DecStr(n) == IF n < 10 THEN << n >> ELSE << n \div 10, n % 10 >>
PadStr(n) == << n \div 10, n % 10 >>

\* the order of two strings that end after their digits or go on with "-"
StrLess(a, b) ==
    \E k \in 1..Len(b) :
        /\ k <= Len(a) + 1
        /\ \A m \in 1..(k - 1) : a[m] = b[m]
        /\ (k = Len(a) + 1 \/ a[k] < b[k])

\* the order of two paths of one directory as strings
PathLess(a, b) ==
    IF a.dev # b.dev THEN StrLess(DecStr(a.dev), DecStr(b.dev))
    ELSE IF a.ns = "by-id" THEN StrLess(PadStr(a.iface), PadStr(b.iface))
    ELSE StrLess(DecStr(a.iface), DecStr(b.iface))

\* _iface_rank (lines 250-257): (0, n) for a name holding "-if<n>-port",
\* (1, the name) for any other
iface_rank(e) == IF e.ns = "by-id" THEN << 0, e.iface >> ELSE << 1, e >>

RankLess(a, b) ==
    LET ra == iface_rank(a)
        rb == iface_rank(b)
    IN  IF ra[1] # rb[1] THEN ra[1] < rb[1]
        ELSE IF ra[1] = 0 THEN ra[2] < rb[2]
        ELSE PathLess(ra[2], rb[2])

\* sorted(..., key=_iface_rank)[0]
Lowest(S) == CHOOSE e \in S : \A e2 \in S \ {e} : RankLess(e, e2)

\* lines 271-273, 297-299: the key of the group of a name
GroupKey(e) == [ns |-> e.ns, dev |-> e.dev]
KeyLess(a, b) == StrLess(DecStr(a.dev), DecStr(b.dev))

\* a scan that remembers no device it has listed
SeenBeforeNever(real, seen) == FALSE

\* lines 282, 307, 313: real in seen_real
SeenBefore(real, seen) == real \in seen

\* lines 277-287, 302-311: the loop over the groups in the order of the keys
RECURSIVE GroupLoop(_, _, _, _, _, _)
GroupLoop(f, prefer_set, eps, keys, devs, seen_real) ==
    IF keys = {} THEN [devices |-> devs, seen_real |-> seen_real]
    ELSE LET key       == CHOOSE k \in keys : \A k2 \in keys \ {k} : KeyLess(k, k2)
             items     == {e \in eps : GroupKey(e) = key}
             preferred == items \cap prefer_set
             chosen    == Lowest(IF preferred # {} THEN preferred ELSE items)
             real      == device_real(f, chosen)
         IN  IF SeenBefore(real, seen_real)
             THEN GroupLoop(f, prefer_set, eps, keys \ {key}, devs, seen_real)
             ELSE GroupLoop(f, prefer_set, eps, keys \ {key},
                            Append(devs, chosen), seen_real \cup {real})

\* lines 311-316: the loop over the other names in their order
RECURSIVE OthersLoop(_, _, _, _)
OthersLoop(f, others, devs, seen_real) ==
    IF others = {} THEN devs
    ELSE LET dev  == CHOOSE e \in others : \A e2 \in others \ {e} : PathLess(e, e2)
             real == device_real(f, dev)
         IN  IF SeenBefore(real, seen_real)
             THEN OthersLoop(f, others \ {dev}, devs, seen_real)
             ELSE OthersLoop(f, others \ {dev}, Append(devs, dev),
                             seen_real \cup {real})

\* scan_devices (lines 260-317, not Windows)
scan_devices(f, prefer_set) ==
    LET by_path  == Glob(f, "by-path") \cup Glob(f, "by-path-v2")
        filtered == IF Glob(f, "by-path") # {} THEN Glob(f, "by-path") ELSE by_path
        by_id    == Glob(f, "by-id")
        others   == Glob(f, "tty")
    IN  IF by_path # {}
        THEN GroupLoop(f, prefer_set, filtered,
                       {GroupKey(e) : e \in filtered}, << >>, {}).devices
        ELSE LET g == GroupLoop(f, prefer_set, by_id,
                                {GroupKey(e) : e \in by_id}, << >>, {})
             IN  OthersLoop(f, others, g.devices, g.seen_real)

\* an entry of the selection taken as it was stored
ResolvedAsStored(found, cfg_dev) == cfg_dev

\* line 207: the device appended for a stored name
Resolved(found, cfg_dev) == found

\* resolve_selected_devices (lines 201-208) from entry k of selected_cfg on
RECURSIVE resolve_from(_, _, _, _)
resolve_from(f, devs, cfg, k) ==
    IF k > Len(cfg) THEN << >>
    ELSE LET real == device_real(f, cfg[k])
             hits == {m \in 1..Len(devs) : device_real(f, devs[m]) = real}
         IN  (IF hits # {}
              THEN << Resolved(devs[CHOOSE m \in hits : \A m2 \in hits : m2 <= m],
                               cfg[k]) >>
              ELSE << >>)
             \o resolve_from(f, devs, cfg, k + 1)

resolve_selected_devices(f, devs, cfg) == resolve_from(f, devs, cfg, 1)

\* resolve_selected_devices has not been called
NotResolved ==
    [called |-> FALSE, fs |-> [hw |-> << >>, mode |-> "tty", renumbered |-> FALSE],
     devices |-> << >>, cfg |-> << >>, result |-> << >>]

\* send_flow not entered
NoFlow == [attempt |-> 0, total_ok |-> 0, outcome |-> "-"]

\* the history API between two requests, none served so far
ApiIdle == [pc |-> "idle", records |-> << >>, served |-> 0, items |-> << >>]

\* no send_flow, no request to the API and no automatic activation
Quiet ==
    /\ flow = NoFlow
    /\ api = ApiIdle
    /\ auto_cfg = "off" /\ auto_activated_real = {} /\ ticks = << >>

\* no discovery made
NoScan ==
    /\ fs = [hw |-> << >>, mode |-> "tty", renumbered |-> FALSE]
    /\ scans = << >>
    /\ selected_cfg = << >>
    /\ selected = NotResolved

Range(seq) == {seq[k] : k \in 1..Len(seq)}

\* the order in which a sorted list of names of several directories stands
NameLess(a, b) ==
    LET rank(ns) == CASE ns = "by-id" -> 0 [] ns = "by-path" -> 1
                      [] ns = "by-path-v2" -> 2 [] OTHER -> 3
    IN  IF a.ns # b.ns THEN rank(a.ns) < rank(b.ns) ELSE PathLess(a, b)

\* sorted(names)
RECURSIVE SortedNames(_)
SortedNames(S) ==
    IF S = {} THEN << >>
    ELSE LET e == CHOOSE e \in S : \A e2 \in S \ {e} : NameLess(e, e2)
         IN  << e >> \o SortedNames(S \ {e})

\* what is left unchanged by discovery
run_vars == << args, history, tmpfile, i, attempt, ok, ok_count, failed,
               stop_index, j, status_list, recipient_modems, modem_status,
               report_records, trace, candidates, kept, report_vars,
               more_vars, flips, faults, exc >>

\* main, lines 2012-2017 (with the saved selection) and lines 1634, 1660
\* (with none): one call of scan_devices
ScanDevices ==
    /\ pc \in {"scan", "menu"}
    /\ Len(scans) < MaxScans
    /\ \E prefer_set \in {{}, Range(selected_cfg)} :
           scans' = Append(scans, [prefer_set |-> prefer_set, fs |-> fs,
                                   devices |-> scan_devices(fs, prefer_set)])
    /\ pc' = "menu"
    /\ UNCHANGED << fs, selected_cfg, selected, run_vars >>

\* between two scans the kernel numbers the same ports anew (the devices
\* were reset)
Renumber ==
    /\ pc = "scan"
    /\ Len(scans) >= 1
    /\ ~fs.renumbered
    /\ fs' = [fs EXCEPT !.renumbered = TRUE]
    /\ UNCHANGED << pc, scans, selected_cfg, selected, run_vars >>

\* lines 2042-2074: the selection screen opens with the resolved selection
\* checked, the user checks or unchecks a device of the list, and
\* cfg["selected_devices"] = sorted(checked)
SaveSelection ==
    /\ pc = "menu"
    /\ Len(scans) >= 1 /\ Len(scans) < MaxScans
    /\ scans[Len(scans)].fs = fs
    /\ LET devs    == scans[Len(scans)].devices
           before  == Range(resolve_selected_devices(fs, devs, selected_cfg))
       IN  \E e \in Range(devs) :
               selected_cfg' = SortedNames(IF e \in before THEN before \ {e}
                                           ELSE before \cup {e})
    /\ pc' = "scan"
    /\ UNCHANGED << fs, scans, selected, run_vars >>

\* lines 2042-2043: the saved selection resolved against the devices of the
\* scan just made
ResolveSelected ==
    /\ pc = "menu"
    /\ Len(scans) >= 1
    /\ scans[Len(scans)].fs = fs
    /\ LET devs == scans[Len(scans)].devices
       IN  selected' = [called |-> TRUE, fs |-> fs, devices |-> devs,
                        cfg |-> selected_cfg,
                        result |-> resolve_selected_devices(fs, devs, selected_cfg)]
    /\ pc' = "resolved"
    /\ UNCHANGED << fs, scans, selected_cfg, run_vars >>

\* the serial interfaces a modem can show
IfaceLayouts == { {0}, {0, 2}, {2, 10} }

\* which directories of names exist
Modes == {"by-path", "by-path-dup", "by-path-v2", "by-id", "tty"}

\* the names a stored selection can hold: the names of the present ports in
\* the directories in use, the first tty, and the name of a device that is
\* gone
StoredNames(f) ==
    Glob(f, "by-path") \cup Glob(f, "by-path-v2") \cup Glob(f, "by-id")
        \cup {Endpoint("tty", 0, 0)}
        \cup {Endpoint(IF f.mode = "by-id" THEN "by-id" ELSE "by-path",
                       MaxModems + 1, 0)}

\* the selections stored when the program starts: none, one name, two
\* names of one modem, or two names of which one is a tty
StoredSelections(f) ==
    {S \in SUBSET StoredNames(f) :
        \/ Cardinality(S) <= 1
        \/ /\ Cardinality(S) = 2
           /\ \/ \A a, b \in S : a.ns = b.ns /\ a.dev = b.dev
              \/ \E a \in S : a.ns = "tty"}


(* ------------------------------ batches ------------------------------- *)
Policy(enabled, delay, mn, mx) ==
    [random_delay_enabled |-> enabled, delay_sec |-> delay,
     random_delay_min_sec |-> mn, random_delay_max_sec |-> mx]

\* lines the history file may hold when a run starts: an expired and a recent
\* record of earlier runs, a line that is no JSON, a line that is JSON but no
\* object
OldRecord == SendRecord(Today - HISTORY_RETENTION_DAYS - 1, 1, "OK", DeviceNames[1], "1")
RecentRecord == SendRecord(Today - 1, 1, "FAIL", DeviceNames[1], "1")
GarbageLine == Line("garbage", NoTs, NoNumber, "", "", "")
NonDictLine == Line("nondict", NoTs, NoNumber, "", "", "")
\* a record stamped by a clock that ran ahead, and one without a number
FutureRecord == SendRecord(Today + 1, 2, "FAIL", DeviceNames[1], "1")
UnnumberedRecord == SendRecord(Today - 2, NoNumber, "OK", DeviceNames[1], "1")

\* the history file of an installation that has been in use
UsedStore == << OldRecord, GarbageLine, RecentRecord >>
\* the other stores: none yet, one that holds a line that is no object, and
\* one whose timestamps do not follow the order of its lines
OtherStores == { << >>, << RecentRecord, NonDictLine >>,
                 << FutureRecord, UnnumberedRecord >> }

\* the state in which send_flow calls send_numbers (lines 1775-1783)
Batch(n, m, p, b, h) ==
    /\ recipients = [q \in 1..n |-> q]
    /\ sections = SubSeq(SectionNames, 1, m)
    /\ devices = SubSeq(DeviceNames, 1, m)
    /\ policy = p
    /\ base = b
    /\ history = h
    /\ tmpfile = << >>
    /\ pc = IF n = 0 THEN "prune" ELSE "recipient"
    /\ i = 0 /\ attempt = 0 /\ ok = FALSE /\ ok_count = 0
    /\ failed = << >>
    /\ stop_index = n
    /\ j = n
    /\ status_list = [q \in 1..n |-> "PENDENTE"]
    /\ recipient_modems = [q \in 1..n |-> "-"]
    /\ modem_status = [d \in {DeviceNames[k] : k \in 1..m} |-> "-"]
    /\ report_records = << >>
    /\ trace = << >>
    /\ candidates = NotListed
    /\ kept = << >>
    /\ stats_records = << >>
    /\ stats = << >>
    /\ NoScan
    /\ Quiet
    /\ flips = 0 /\ faults = 0
    /\ exc = ""

NoDelay == Policy(FALSE, 0, 0, 0)
FixedDelay == Policy(FALSE, 1, 0, 0)

\* the modems of a pool of m, and the ways the Transport can prevail on them
PoolDevices(m) == {DeviceNames[k] : k \in 1..m}
Prevailing(m) == [PoolDevices(m) -> BOOLEAN]
AllBad(m) == [d \in PoolDevices(m) |-> FALSE]

\* short batches on every pool; long batches on a pool where the Transport
\* mostly fails; short batches on one modem over the other stores
Init ==
    \/ \E n \in 1..MaxShort, m \in 1..MaxChannels :
          /\ n * m <= MaxCalls
          /\ \E b \in Prevailing(m) : Batch(n, m, NoDelay, b, UsedStore)
    \/ \E m \in 1..MaxLongChannels :
          Batch(FAIL_LIMIT + MaxExtra, m, FixedDelay, AllBad(m), UsedStore)
    \/ \E n \in 1..MaxShort, h \in OtherStores :
          \E b \in Prevailing(1) : Batch(n, 1, NoDelay, b, h)

Next ==
    \/ BeginRecipient
    \/ Attempt
    \/ FinishRecipient
    \/ SkipRecipient
    \/ PruneAndReturn
    \/ HistoryCandidates

Spec == Init /\ [][Next]_vars

(* ------------------------------ report ------------------------------- *)
\* rec.get(field, default)
Get(rec, field, default) == IF field \in DOMAIN rec THEN rec[field] ELSE default

\* str.upper() on the status strings that occur
Upper(str) == CASE str = "ok" -> "OK" [] str = "fail" -> "FAIL" [] OTHER -> str

\* a key that is the device as the record gives it
DeviceKeyRaw(rec) == Get(rec, "device", "")

\* line 1488: rec.get("device", "") or "-"
DeviceKey(rec) ==
    LET dev == Get(rec, "device", "") IN IF dev = "" THEN "-" ELSE dev

\* line 1490: the entry setdefault creates
NewEntry == [total |-> 0, ok |-> 0, fail |-> 0, last_ts |-> NoTs]

\* lines 1487-1498: the loop of build_report from record k on
RECURSIVE build_report_from(_, _, _)
build_report_from(recs, k, st) ==
    IF k > Len(recs) THEN st
    ELSE LET rec    == recs[k]
             dev    == DeviceKey(rec)
             status == Upper(Get(rec, "status", ""))
             entry  == IF dev \in DOMAIN st THEN st[dev] ELSE NewEntry
             ts     == Get(rec, "ts", NoTs)
             after  == [total   |-> entry.total + 1,
                        ok      |-> entry.ok + (IF status = "OK" THEN 1 ELSE 0),
                        fail    |-> entry.fail + (IF status = "FAIL" THEN 1 ELSE 0),
                        last_ts |-> IF ts # NoTs /\ (entry.last_ts = NoTs
                                                       \/ ts > entry.last_ts)
                                    THEN ts ELSE entry.last_ts]
         IN  build_report_from(recs, k + 1, (dev :> after) @@ st)

build_report(recs) == build_report_from(recs, 1, << >>)

\* report_screen / build_report_from_records: the call of build_report
BuildReport ==
    /\ pc = "report"
    /\ stats' = build_report(stats_records)
    /\ pc' = "reported"
    /\ UNCHANGED << args, history, tmpfile, i, attempt, ok, ok_count, failed,
                    stop_index, j, status_list, recipient_modems, modem_status,
                    report_records, trace, candidates, kept, stats_records,
                    scan_vars, more_vars, flips, faults, exc >>

\* the records a report is made of: attempts that went well and badly on a
\* modem, a skipped recipient, and records without a device, with an empty
\* device, with a status in lower case, with another status, without a time
ReportRecords ==
    { [device |-> DeviceNames[1], status |-> "OK", ts |-> 3],
      [device |-> DeviceNames[1], status |-> "FAIL", ts |-> 1],
      [device |-> "SKIPPED_FAIL_LIMIT", status |-> "FAIL", ts |-> 4],
      [status |-> "FAIL", ts |-> 5],
      [device |-> "", status |-> "ok", ts |-> 2],
      [device |-> DeviceNames[2], status |-> "PENDENTE"] }

\* the lists of at most n records
ReportInputs(n) == UNION { [1..len -> ReportRecords] : len \in 0..n }

\* no run of send_numbers under way
AtRest ==
    /\ recipients = << >> /\ sections = << >> /\ devices = << >>
    /\ policy = NoDelay
    /\ base = AllBad(0)
    /\ history = << >> /\ tmpfile = << >>
    /\ i = 0 /\ attempt = 0 /\ ok = FALSE /\ ok_count = 0
    /\ failed = << >> /\ stop_index = 0 /\ j = 0
    /\ status_list = << >> /\ recipient_modems = << >>
    /\ modem_status = AllBad(0)
    /\ report_records = << >> /\ trace = << >>
    /\ candidates = NotListed /\ kept = << >>
    /\ flips = 0 /\ faults = 0 /\ exc = ""

ReportInit ==
    /\ AtRest
    /\ NoScan
    /\ Quiet
    /\ pc = "report"
    /\ stats_records \in ReportInputs(MaxRecords)
    /\ stats = << >>

ReportNext == BuildReport

ReportSpec == ReportInit /\ [][ReportNext]_vars

\* the delay settings a configuration can hold (lines 1767-1770): none, a
\* fixed delay, and random delays with max = 0, with min above max, with
\* min below max, and with a negative min
DelayPolicies ==
    { NoDelay, FixedDelay, Policy(TRUE, 1, 0, 0), Policy(TRUE, 0, 2, 0),
      Policy(TRUE, 0, 1, 2), Policy(TRUE, 0, -1, 1) }
\* those under which every pause has the same length
SteadyPolicies == { FixedDelay, Policy(TRUE, 0, 2, 0) }

\* short batches under every delay setting, and a batch that runs into the
\* failure limit
DelayInit ==
    \/ \E n \in 1..MaxDelayBatch, m \in 1..MaxLongChannels, p \in DelayPolicies :
          \E b \in Prevailing(m) : Batch(n, m, p, b, UsedStore)
    \/ \E p \in SteadyPolicies :
          Batch(FAIL_LIMIT + 1, 1, p, AllBad(1), UsedStore)

DelaySpec == DelayInit /\ [][Next]_vars


\* discovery on one to MaxModems modems of one make under every naming
ScanInit ==
    /\ AtRest
    /\ Quiet
    /\ pc = "scan"
    /\ stats_records = << >> /\ stats = << >>
    /\ \E m \in 1..MaxModems, mode \in Modes, layout \in IfaceLayouts :
           fs = [hw |-> [d \in 1..m |-> layout], mode |-> mode,
                 renumbered |-> FALSE]
    /\ scans = << >>
    /\ \E S \in StoredSelections(fs) : selected_cfg = SortedNames(S)
    /\ selected = NotResolved

ScanNext ==
    \/ ScanDevices
    \/ Renumber
    \/ SaveSelection
    \/ ResolveSelected

ScanSpec == ScanInit /\ [][ScanNext]_vars

(* ---------------------------- history API ----------------------------- *)
\* the requests served and the recipients of the run they meet
MaxRequests == 1
MaxApiBatch == 2

\* _filter_since (sms_api.py, lines 10-16); NoTs is no since parameter or
\* one that parse_ts does not read
filter_since(records, since) ==
    IF parse_ts(since) = NoTs THEN records
    ELSE SelectSeq(records, LAMBDA r : /\ parse_ts(r.ts) # NoTs
                                       /\ parse_ts(r.ts) >= parse_ts(since))

\* _apply_limit (sms_api.py, lines 19-28); 0 is no limit parameter or one
\* that is no number
apply_limit(records, limit) ==
    IF limit <= 0 THEN records
    ELSE SubSeq(records, Max2(Len(records) - limit + 1, 1), Len(records))

\* prune_history(records) (sms_cli.py, lines 382-399) for a list its caller
\* loaded: what it leaves in the history file and in the .tmp file
prune_records(records, lines, tmp, now, max_days, io, cut) ==
    LET kp == PruneKept(records, now, max_days)
    IN  IF PruneRaises(records)
        THEN [history |-> lines, tmpfile |-> tmp, raised |-> TRUE, kept |-> << >>]
        ELSE IF io = "write_fail"
        THEN [history |-> lines, tmpfile |-> SubSeq(kp, 1, cut),
              raised |-> FALSE, kept |-> kp]
        ELSE [history |-> kp, tmpfile |-> tmp, raised |-> FALSE, kept |-> kp]

\* the parameters of a request
Sinces == {NoTs, Today}
Limits == {0, 1}

\* what a request to the API leaves unchanged besides the store
api_frame == << args, pc, i, attempt, ok, ok_count, failed, stop_index, j,
                status_list, recipient_modems, modem_status, report_records,
                trace, candidates, kept, report_vars, scan_vars, flow,
                auto_vars, flips, exc >>

\* do_GET, lines 42-45: GET /health
ApiHealth ==
    /\ api.pc = "idle"
    /\ api.served < MaxRequests
    /\ api' = [api EXCEPT !.served = @ + 1, !.items = << >>]
    /\ UNCHANGED << api_frame, history, tmpfile, faults >>

\* do_GET, line 54, first half: GET /history evaluates load_history()
ApiLoad ==
    /\ api.pc = "idle"
    /\ api.served < MaxRequests
    /\ \E rd \in {"ok", "read_fail"} :
       LET cost == IF rd = "ok" THEN 0 ELSE 1
       IN  /\ Affordable(cost)
           /\ faults' = faults + cost
           /\ api' = [api EXCEPT !.pc = "loaded",
                                 !.records = load_history(history, rd = "read_fail")]
    /\ UNCHANGED << api_frame, history, tmpfile >>

\* do_GET, lines 54-58: prune_history of the loaded list, the filters and
\* the response; an exception out of prune_history ends the request
ApiPrune ==
    /\ api.pc = "loaded"
    /\ \E io \in {"ok", "write_fail"}, since \in Sinces, limit \in Limits :
       LET cost == IF io = "ok" THEN 0 ELSE 1
           kp   == PruneKept(api.records, Today, HISTORY_RETENTION_DAYS)
       IN  /\ Affordable(cost)
           /\ faults' = faults + cost
           /\ \E cut \in (IF io = "write_fail" THEN 0..Len(kp) ELSE {0}) :
              LET r == prune_records(api.records, history, tmpfile, Today,
                                     HISTORY_RETENTION_DAYS, io, cut)
              IN  /\ history' = r.history
                  /\ tmpfile' = r.tmpfile
                  /\ api' = [pc |-> "idle", records |-> << >>,
                             served |-> api.served + 1,
                             items |-> IF r.raised THEN << >>
                                       ELSE apply_limit(filter_since(r.kept, since),
                                                        limit)]
    /\ UNCHANGED api_frame

\* a run of send_numbers on one modem and the API process beside it
ApiInit ==
    \E n \in 1..MaxApiBatch, h \in {UsedStore} \cup OtherStores :
        \E b \in Prevailing(1) : Batch(n, 1, NoDelay, b, h)

ApiNext ==
    \/ BeginRecipient
    \/ Attempt
    \/ FinishRecipient
    \/ PruneAndReturn
    \/ ApiHealth
    \/ ApiLoad
    \/ ApiPrune

ApiSpec == ApiInit /\ [][ApiNext]_vars

(* ------------------------ automatic activation ------------------------ *)
\* the calls of auto_activate_devices followed
MaxTicks == 4

\* the settings of automatic activation: "on" the flag set and commands
\* given, "off" the flag not set, "no-commands" the flag set without commands
AutoSettings == {"on", "off", "no-commands"}

\* the modems plugged in, each with one serial interface
Plugged(m) == [d \in 1..m |-> {0}]

\* the modem behind a name of the list of a scan
ModemOf(f, e) ==
    CHOOSE d \in DOMAIN f.hw :
        \E p \in f.hw[d] :
            device_real(f, e) = Endpoint("tty", 0, TtyNumber(f, << d, p >>))

\* one call of auto_activate_devices as seen from outside: the modems that
\* were enumerated then and those that were sent the commands
Tick(seen, activated) == [seen |-> seen, activated |-> activated]

\* what main's loop leaves unchanged around a call of auto_activate_devices
auto_frame == << args, history, tmpfile, pc, i, attempt, ok, ok_count, failed,
                 stop_index, j, status_list, recipient_modems, modem_status,
                 report_records, trace, candidates, kept, report_vars,
                 scans, selected_cfg, selected, flow, api, auto_cfg,
                 flips, faults, exc >>

\* auto_activate_devices (lines 1628-1643), called by main at line 2008 and
\* by the menu's tick once a second (lines 2031-2036)
AutoActivate ==
    /\ pc = "main"
    /\ Len(ticks) < MaxTicks
    /\ LET detected     == scan_devices(fs, {})
           seen         == {ModemOf(fs, e) : e \in Range(detected)}
           current_real == {device_real(fs, e) : e \in Range(detected)}
           still        == auto_activated_real \cap current_real
           to_activate  == SelectSeq(detected,
                                     LAMBDA e : device_real(fs, e) \notin still)
       IN  IF auto_cfg # "on" \/ detected = << >>
           THEN /\ auto_activated_real' = auto_activated_real
                /\ ticks' = Append(ticks, Tick(seen, {}))
           ELSE /\ auto_activated_real' =
                       still \cup {device_real(fs, e) : e \in Range(to_activate)}
                /\ ticks' = Append(ticks,
                                   Tick(seen, {ModemOf(fs, e) : e \in Range(to_activate)}))
    /\ UNCHANGED << auto_frame, fs >>

\* a modem is plugged in beside those present; it gets the next tty number
Plug ==
    /\ pc = "main"
    /\ Len(ticks) < MaxTicks
    /\ Cardinality(DOMAIN fs.hw) < MaxModems
    /\ fs' = [fs EXCEPT !.hw = Plugged(Cardinality(DOMAIN fs.hw) + 1)]
    /\ UNCHANGED << auto_frame, auto_activated_real, ticks >>

\* the modem plugged in last is pulled out
Unplug ==
    /\ pc = "main"
    /\ Len(ticks) < MaxTicks
    /\ Cardinality(DOMAIN fs.hw) > 0
    /\ fs' = [fs EXCEPT !.hw = Plugged(Cardinality(DOMAIN fs.hw) - 1)]
    /\ UNCHANGED << auto_frame, auto_activated_real, ticks >>

\* main at line 2006: nothing activated yet, any number of modems present
AutoInit ==
    /\ AtRest
    /\ pc = "main"
    /\ stats_records = << >> /\ stats = << >>
    /\ flow = NoFlow /\ api = ApiIdle
    /\ \E m \in 0..MaxModems, mode \in Modes :
           fs = [hw |-> Plugged(m), mode |-> mode, renumbered |-> FALSE]
    /\ scans = << >> /\ selected_cfg = << >> /\ selected = NotResolved
    /\ auto_cfg \in AutoSettings
    /\ auto_activated_real = {}
    /\ ticks = << >>

AutoNext ==
    \/ AutoActivate
    \/ Plug
    \/ Unplug

AutoSpec == AutoInit /\ [][AutoNext]_vars

(* ------------------------------ send_flow ----------------------------- *)
\* the recipients send_flow is called with and the retries the user asks for
MaxFlowBatch == 2
MaxRetries == 1

\* the path of a tty as it is handed to gammu: /dev/ttyUSB<n>
PathOf(e) == DeviceNames[e.iface + 1]

\* a test that looks at the selection only
NothingToDoNoModem(sel, recs) == sel = << >>

\* lines 1727-1732: not selected, not recipients
NothingToDo(sel, recs) == sel = << >> \/ recs = << >>

\* lines 1724-1783: send_flow up to its first call of send_numbers
SendFlow ==
    /\ pc = "send_flow"
    /\ LET devs  == scans[Len(scans)].devices
           sel   == resolve_selected_devices(fs, devs, selected_cfg)
           paths == [k \in 1..Len(sel) |-> PathOf(sel[k])]
       IN  /\ selected' = [called |-> TRUE, fs |-> fs, devices |-> devs,
                           cfg |-> selected_cfg, result |-> sel]
           /\ IF NothingToDo(sel, recipients)
              THEN /\ flow' = [flow EXCEPT !.outcome = "nothing to do"]
                   /\ pc' = "returned"
                   /\ UNCHANGED << sections, devices, status_list,
                                   recipient_modems, modem_status, stop_index, j >>
              ELSE \E go \in {"send", "no gammu", "not confirmed"} :
                   IF go # "send"
                   THEN /\ flow' = [flow EXCEPT !.outcome = go]
                        /\ pc' = "returned"
                        /\ UNCHANGED << sections, devices, status_list,
                                        recipient_modems, modem_status,
                                        stop_index, j >>
                   ELSE /\ flow' = [attempt |-> 1, total_ok |-> 0,
                                    outcome |-> "sending"]
                        /\ sections' = SubSeq(SectionNames, 1, Len(sel))
                        /\ devices' = paths
                        /\ status_list' = [q \in 1..NumRecipients |-> "PENDENTE"]
                        /\ recipient_modems' = [q \in 1..NumRecipients |-> "-"]
                        /\ modem_status' = [d \in Range(paths) |-> "-"]
                        /\ stop_index' = NumRecipients
                        /\ j' = NumRecipients
                        /\ pc' = IF NumRecipients = 0 THEN "prune" ELSE "recipient"
    /\ UNCHANGED << recipients, policy, base, history, tmpfile, i, attempt, ok,
                    ok_count, failed, report_records, trace, candidates, kept,
                    report_vars, fs, scans, selected_cfg, api, auto_vars,
                    flips, faults, exc >>

\* lines 1832-1853: send_flow after send_numbers returned
FlowResult ==
    /\ pc = "done"
    /\ \E retry \in BOOLEAN :
       IF Len(failed) = 0 \/ ~retry
       THEN /\ flow' = [flow EXCEPT !.total_ok = @ + ok_count,
                                    !.outcome = IF Len(failed) = 0 THEN "sent"
                                                ELSE "failures"]
            /\ pc' = "returned"
            /\ UNCHANGED << recipients, status_list, recipient_modems, i, attempt,
                            ok, ok_count, failed, stop_index, j >>
       ELSE /\ flow.attempt <= MaxRetries
            /\ flow' = [flow EXCEPT !.total_ok = @ + ok_count,
                                    !.attempt = @ + 1]
            /\ recipients' = failed
            /\ status_list' = [q \in 1..Len(failed) |-> "PENDENTE"]
            /\ recipient_modems' = [q \in 1..Len(failed) |-> "-"]
            /\ i' = 0 /\ attempt' = 0 /\ ok' = FALSE /\ ok_count' = 0
            /\ failed' = << >>
            /\ stop_index' = Len(failed)
            /\ j' = Len(failed)
            /\ pc' = "recipient"
    /\ UNCHANGED << sections, devices, policy, base, history, tmpfile,
                    modem_status, report_records, trace, candidates, kept,
                    report_vars, scan_vars, api, auto_vars, flips, faults, exc >>

\* the modems main has found (ttys only) and a saved selection of them
FlowWorld(m, S) ==
    /\ fs = [hw |-> Plugged(m), mode |-> "tty", renumbered |-> FALSE]
    /\ scans = << [prefer_set |-> S, fs |-> fs,
                   devices |-> scan_devices(fs, S)] >>
    /\ selected_cfg = SortedNames(S)
    /\ selected = NotResolved

\* compose_and_send or resend_from_history calls send_flow (lines 1415 and
\* 1721) with n recipients
FlowCall(n, p) ==
    /\ recipients = [q \in 1..n |-> q]
    /\ sections = << >> /\ devices = << >>
    /\ policy = p
    /\ history = UsedStore /\ tmpfile = << >>
    /\ pc = "send_flow"
    /\ i = 0 /\ attempt = 0 /\ ok = FALSE /\ ok_count = 0
    /\ failed = << >> /\ stop_index = 0 /\ j = 0
    /\ status_list = << >> /\ recipient_modems = << >>
    /\ modem_status = AllBad(0)
    /\ report_records = << >> /\ trace = << >>
    /\ candidates = NotListed /\ kept = << >>
    /\ stats_records = << >> /\ stats = << >>
    /\ flow = NoFlow /\ api = ApiIdle
    /\ auto_cfg = "off" /\ auto_activated_real = {} /\ ticks = << >>
    /\ flips = 0 /\ faults = 0 /\ exc = ""

\* the selections saved: ttys that are present, and a tty that is gone
FlowSelections(m) ==
    SUBSET ({Endpoint("tty", 0, k) : k \in 0..(m - 1)}
            \cup {Endpoint("tty", 0, 5)})

\* short lists of recipients with none to two modems found, and a list long
\* enough for the failure limit on one modem
FlowInit ==
    \/ \E m \in {0, 1, 2}, n \in 0..MaxFlowBatch :
          /\ FlowCall(n, NoDelay)
          /\ \E S \in FlowSelections(m) : FlowWorld(m, S)
          /\ base \in Prevailing(m)
    \/ /\ FlowCall(FAIL_LIMIT + 1, NoDelay)
       /\ FlowWorld(1, {Endpoint("tty", 0, 0)})
       /\ base = AllBad(1)

FlowNext ==
    \/ SendFlow
    \/ BeginRecipient
    \/ Attempt
    \/ FinishRecipient
    \/ SkipRecipient
    \/ PruneAndReturn
    \/ FlowResult

FlowSpec == FlowInit /\ [][FlowNext]_vars

(* ------------------------- reading the state -------------------------- *)
Positions == 1..NumRecipients

\* the Recipient statuses of the data model, read off status_list and
\* recipient_modems (a skipped recipient is shown FAIL on modem "SKIPPED")
Pending(q) == status_list[q] = "PENDENTE"
Sending(q) == status_list[q] = "ENVIANDO"
Sent(q) == status_list[q] = "OK"
Skipped(q) == status_list[q] = "FAIL" /\ recipient_modems[q] = "SKIPPED"
Failed(q) == status_list[q] = "FAIL" /\ recipient_modems[q] # "SKIPPED"

SentSet == {q \in Positions : Sent(q)}
FailedSet == {q \in Positions : Failed(q)}
SkippedSet == {q \in Positions : Skipped(q)}

Returned == pc = "done"

(* ------------------------------- C1 ----------------------------------- *)
\* C1: when send_numbers returns, no recipient is left Pending or Sending:
\* each is Sent, Failed or Skipped, and the three counts add up to the size
\* of the batch.
C1_Completion ==
    Returned =>
        /\ \A q \in Positions : Sent(q) \/ Failed(q) \/ Skipped(q)
        /\ \A q \in Positions : ~Pending(q) /\ ~Sending(q)
        /\ Cardinality(SentSet) + Cardinality(FailedSet) + Cardinality(SkippedSet)
             = NumRecipients

\* a returned run that tripped the limit and holds all three outcomes
C1_Witness ==
    /\ Returned
    /\ SentSet # {} /\ SkippedSet # {}
    /\ Cardinality(FailedSet) = FAIL_LIMIT


(* ------------------------- reading the trace -------------------------- *)
\* the Transport calls (send_sms) of the run, in the order they were made:
\* i the recipient's position, x the channel index, y the result
\* (1 ok, 0 failure, 2 raised), z the value of the loop variable attempt
SendEvents == SelectSeq(trace, LAMBDA e : e.ev = "send")

\* the Transport calls made for the recipient at batch position r
SendsOf(r) == SelectSeq(trace, LAMBDA e : e.ev = "send" /\ e.i = r)

(* ------------------------------- C2 ----------------------------------- *)
\* C2: the k-th Transport attempt for the recipient at position i uses
\* channels[(i + k) mod N]; the attempts of one recipient are consecutive,
\* number 0, 1, ... below N, and never use a channel (a device) twice, so a
\* success after a failed first attempt is on another channel.
C2_RoundRobin ==
    LET se == SendEvents IN
    \A t \in 1..Len(se) :
        LET r == se[t].i
            first == t = 1 \/ se[t - 1].i # r
            k == IF first THEN 0 ELSE se[t - 1].z + 1
        IN  /\ total_modems > 0
            /\ t > 1 => se[t - 1].i <= r
            /\ se[t].z = k
            /\ k < total_modems
            /\ se[t].x = (r + k) % total_modems
            /\ \A u \in (t - k)..(t - 1) :
                   /\ se[u].i = r
                   /\ se[u].x # se[t].x
                   /\ devices[se[u].x + 1] # devices[se[t].x + 1]

\* with 3 channels the recipient at position 2 fails on channels 2 and 0
\* (wrapping around) and succeeds on channel 1
C2_Witness ==
    /\ total_modems = 3
    /\ LET s == SendsOf(2) IN
       /\ Len(s) = 3
       /\ s[1].x = 2 /\ s[1].y = 0
       /\ s[2].x = 0 /\ s[2].y = 0
       /\ s[3].x = 1 /\ s[3].y = 1

(* ------------------------------- C3 ----------------------------------- *)
\* C3: a recipient is Sent exactly when an attempt for it succeeded, and that
\* success is its last Transport attempt; it is Failed exactly when all N
\* channel attempts were made and failed. With 2 channels of which A always
\* succeeds and B always fails, 5 of 5 recipients end Sent, all via A.
OnlyAWorks ==
    LET se == SendEvents IN
    \A t \in 1..Len(se) : se[t].y = (IF se[t].x = 0 THEN 1 ELSE 0)

C3_SentOnFirstSuccess ==
    /\ \A q \in Positions :
        LET s == SendsOf(q - 1) IN
        /\ \A k \in 1..Len(s) : s[k].y = 1 => k = Len(s)
        /\ Sent(q) => Len(s) >= 1 /\ s[Len(s)].y = 1
        /\ Failed(q) => /\ Len(s) = total_modems
                        /\ \A k \in 1..Len(s) : s[k].y = 0
    /\ (Returned /\ NumRecipients = 5 /\ total_modems = 2 /\ OnlyAWorks)
       => /\ \A q \in Positions : Sent(q)
          /\ ok_count = 5

\* the 5-recipient, 2-channel run in which B failed whenever it was tried
C3_Witness ==
    /\ Returned /\ NumRecipients = 5 /\ total_modems = 2
    /\ OnlyAWorks
    /\ Len(SendEvents) = 7
    /\ \A q \in Positions : Sent(q)


(* ------------------------------- C4 ----------------------------------- *)
\* C4: once FAIL_LIMIT recipients have ended Failed, no step of the run makes
\* a Transport call; no Transport call is ever made for a Skipped recipient;
\* and when the loop has ended on the limit, every recipient after the one
\* with the last failure is Skipped.
C4_NoCallForSkipped ==
    /\ \A q \in Positions : Skipped(q) => SendsOf(q - 1) = << >>
    /\ (pc \in {"prune", "done"} /\ Cardinality(FailedSet) >= FAIL_LIMIT) =>
          LET last == CHOOSE q \in FailedSet : \A q2 \in FailedSet : q2 <= q
          IN  \A q \in Positions : q > last => Skipped(q)

C4_BreakerStopsTransport ==
    /\ []C4_NoCallForSkipped
    /\ [][Cardinality(FailedSet) >= FAIL_LIMIT =>
             Len(SelectSeq(trace', LAMBDA e : e.ev = "send")) = Len(SendEvents)]_vars

\* 15 recipients on 2 modems: the first 10 fail on both, the last 5 are skipped
C4_Witness ==
    /\ Returned /\ NumRecipients = 15 /\ total_modems = 2
    /\ FailedSet = 1..FAIL_LIMIT
    /\ SkippedSet = (FAIL_LIMIT + 1)..15
    /\ Len(SendEvents) = 2 * FAIL_LIMIT

(* ------------------------------- C5 ----------------------------------- *)
Synthetic(rec) == rec.device = "SKIPPED_FAIL_LIMIT"

\* the calls of append_history, in order: x is the channel index of the
\* attempt recorded, -1 for the record of a skipped recipient; y is 1 when
\* the line reached the file
AppendEvents == SelectSeq(trace, LAMBDA e : e.ev = "append")

\* rr[k] for the k with keep[k], in order
RECURSIVE Picked(_, _, _)
Picked(rr, keep, k) ==
    IF k > Len(rr) THEN << >>
    ELSE (IF keep[k] THEN << rr[k] >> ELSE << >>) \o Picked(rr, keep, k + 1)

\* the lines of this run in the history file
RunLines == SelectSeq(history, LAMBDA l : l.kind = "rec" /\ l.ts = Today)

StoredAttempts == SelectSeq(RunLines, LAMBDA l : ~Synthetic(l))

\* C6: while the run is between attempts or between recipients, the file
\* holds one record of the run for every Transport attempt made so far.
C6_StoredEqualsAttempts ==
    pc \in {"attempt", "finish", "recipient", "skip", "prune"} =>
        Len(StoredAttempts) = Len(SendEvents)

(* ------------------------------- C7 ----------------------------------- *)
\* a, b: two calls of append_history; a comes first in attempt order
InAttemptOrder(a, b) ==
    CASE a.x # -1 /\ b.x # -1 -> a.i < b.i \/ (a.i = b.i /\ a.z < b.z)
      [] a.x # -1 /\ b.x = -1 -> a.i < b.i
      [] a.x = -1 /\ b.x = -1 -> a.i < b.i
      [] OTHER -> FALSE

\* the position in recs of the last record of a number
LastPosition(recs, number) ==
    CHOOSE k \in 1..Len(recs) :
        /\ recs[k].number = number
        /\ \A k2 \in (k + 1)..Len(recs) : recs[k2].number # number

\* C7: append_history is called in attempt order (recipient, then attempt,
\* then the skipped records) and the lines of the run lie in the file in the
\* order of the calls, after the lines of earlier runs; history_candidates,
\* when it reads the file, lists every number of the file once, gives each
\* the record at its last position in the file, and lists the numbers from
\* the last written to the first.
C7_LastWriteWins ==
    LET ae == AppendEvents
    IN  /\ \A k \in 1..(Len(ae) - 1) : InAttemptOrder(ae[k], ae[k + 1])
        /\ \A k \in 1..Len(ae) :
               report_records[k].number = recipients[ae[k].i + 1]
        /\ ~Returned =>
               /\ RunLines = Picked(report_records,
                                    [k \in 1..Len(ae) |-> ae[k].y = 1], 1)
               /\ SubSeq(history, Len(history) - Len(RunLines) + 1, Len(history))
                      = RunLines
        /\ (candidates.listed /\ candidates.read) =>
               LET recs == load_history(history, FALSE)
                   ord  == candidates.order
               IN  /\ {ord[a] : a \in 1..Len(ord)} =
                          {recs[k].number : k \in 1..Len(recs)} \ {NoNumber}
                   /\ DOMAIN candidates.latest = {ord[a] : a \in 1..Len(ord)}
                   /\ \A a \in 1..Len(ord) :
                          candidates.latest[ord[a]] =
                              recs[LastPosition(recs, ord[a])]
                   /\ \A a, b \in 1..Len(ord) :
                          a < b => LastPosition(recs, ord[a])
                                       > LastPosition(recs, ord[b])

\* a file where a number's last line carries an earlier time than a line
\* before it: the candidates hold the last line, and more than one number
C7_Witness ==
    /\ candidates.listed /\ candidates.read
    /\ Len(candidates.order) >= 2
    /\ \E k, k2 \in 1..Len(history) :
           /\ k < k2
           /\ history[k].number = history[k2].number
           /\ history[k].ts > history[k2].ts
           /\ history[k].status # history[k2].status
           /\ candidates.latest[history[k].number] = history[k2]

(* ------------------------------- C8 ----------------------------------- *)
\* C8: whenever a recipient has been processed, and at the return, ok_count
\* is the number of Sent recipients, failed lists in batch order the
\* recipients that ended Failed (none of the Skipped ones), and ok_count +
\* len(failed) is the number of recipients processed so far.
C8_ReturnValue ==
    pc \in {"recipient", "skip", "prune", "done"} =>
        /\ ok_count = Cardinality(SentSet)
        /\ failed = Picked(recipients, [q \in Positions |-> Failed(q)], 1)
        /\ ok_count + Len(failed) = Cardinality(SentSet \cup FailedSet)
        /\ pc = "recipient" => ok_count + Len(failed) = i
        /\ pc # "recipient" => ok_count + Len(failed) = stop_index

\* a returned run with a Sent recipient, ten Failed ones and Skipped ones
C8_Witness ==
    /\ Returned
    /\ ok_count >= 1
    /\ Len(failed) = FAIL_LIMIT
    /\ SkippedSet # {}

(* ------------------------------- C9 ----------------------------------- *)
\* C9: no failure of the history file ends send_numbers: it never raises out
\* of append_history or prune_history.
C9_StoreFailureNeverAborts ==
    ~(pc = "raised" /\ exc \in {"append_history", "prune_history"})

(* ------------------------------- C10 ---------------------------------- *)
\* C10: an exception of the progress callback never ends send_numbers.
C10_CallbackFailureNeverAborts ==
    ~(pc = "raised" /\ exc = "progress_cb")


(* ------------------------------- C11 ---------------------------------- *)
\* C11: with at least one modem, neither send_sms raising nor log_event
\* raising ends send_numbers.
C11_DispatchFaultNeverAborts ==
    total_modems > 0 => ~(pc = "raised" /\ exc \in {"send_sms", "log_event"})

(* ------------------------------- C12 ---------------------------------- *)
\* the positions in the trace of the calls of time.sleep
SleepPositions == {k \in 1..Len(trace) : trace[k].ev = "sleep"}

\* C12: every pause comes after a recipient that is not the last of the
\* batch, right after that recipient's closing progress call; all Transport
\* calls of that recipient and of the earlier ones come before it, all later
\* Transport calls are for later recipients, and no recipient has two pauses.
C12_PauseOnlyBetweenRecipients ==
    \A k \in SleepPositions :
        LET r == trace[k].i
        IN  /\ r < NumRecipients - 1
            /\ k > 1 /\ trace[k - 1].ev = "cb" /\ trace[k - 1].x = r + 1
            /\ \E k2 \in 1..(k - 1) : trace[k2].ev = "send" /\ trace[k2].i = r
            /\ \A k2 \in 1..Len(trace) :
                   trace[k2].ev = "send" =>
                       IF k2 < k THEN trace[k2].i <= r ELSE trace[k2].i > r
            /\ \A k2 \in SleepPositions : k2 # k => trace[k2].i # r

\* three recipients on two modems under a delay: the second needed both
\* modems, and the run paused twice, after the first and after the second
C12_Witness ==
    /\ Returned /\ NumRecipients = 3 /\ total_modems = 2
    /\ PauseChoices(policy) # {}
    /\ Len(SendsOf(1)) = 2
    /\ {trace[k].i : k \in SleepPositions} = {0, 1}
    /\ Cardinality(SleepPositions) = 2

(* ------------------------------- C13 ---------------------------------- *)
\* C13: a random delay with max = 0, whatever its min, and a fixed delay of
\* 0 never pause; any other random pause lies between min (or 0 if min is
\* negative) and max.
C13_MaxZeroIsNoDelay ==
    IF policy.random_delay_enabled
    THEN IF policy.random_delay_max_sec = 0
         THEN SleepPositions = {}
         ELSE \A k \in SleepPositions :
                  /\ trace[k].x >= Max2(policy.random_delay_min_sec, 0)
                  /\ trace[k].x <= policy.random_delay_max_sec
    ELSE policy.delay_sec = 0 => SleepPositions = {}


(* ------------------------------- C14 ---------------------------------- *)
\* the lines of a file that are records with a time inside the window
WithinWindow(lines) ==
    SelectSeq(lines, LAMBDA l : /\ l.kind = "rec"
                                /\ l.ts # NoTs
                                /\ l.ts >= Today - HISTORY_RETENTION_DAYS)

\* C14: a call of prune_history returns, and leaves in the file, exactly the
\* records of the file whose time is within the retention window, in the
\* order they had.
C14_PruneKeepsWindow ==
    [][pc = "prune" => /\ kept' = WithinWindow(history)
                       /\ history' = WithinWindow(history)]_vars

(* ------------------------------- C15 ---------------------------------- *)
\* C15: whatever happens to a call of prune_history, the history file holds
\* afterwards either what it held before or the whole list the call returned;
\* what was written of a replacement that failed is in the .tmp file only.
C15_PruneIsAtomic ==
    [][pc = "prune" =>
          /\ history' = history \/ (pc' = "done" /\ history' = kept')
          /\ tmpfile' # tmpfile =>
                 /\ history' = history
                 /\ \E c \in 0..Len(kept') : tmpfile' = SubSeq(kept', 1, c)]_vars

\* a replacement that failed after its first record: the .tmp file holds a
\* proper part of the list, the history file still every line it had
C15_Witness ==
    /\ Returned
    /\ Len(tmpfile) >= 1 /\ Len(tmpfile) < Len(kept)
    /\ tmpfile = SubSeq(kept, 1, Len(tmpfile))
    /\ \E k \in 1..Len(history) : history[k] = OldRecord
    /\ \E k \in 1..Len(history) : history[k] = GarbageLine
    /\ Len(history) > Len(kept)


(* ------------------------------- C16 ---------------------------------- *)
\* the positions of the input whose record has the device dev, where no
\* device and an empty one count as "-"
RecordsOf(dev) ==
    {k \in 1..Len(stats_records) :
        IF "device" \in DOMAIN stats_records[k] /\ stats_records[k].device # ""
        THEN stats_records[k].device = dev
        ELSE dev = "-"}

RECURSIVE SumOfTotals(_, _)
SumOfTotals(st, keys) ==
    IF keys = {} THEN 0
    ELSE LET key == CHOOSE key \in keys : TRUE
         IN  st[key].total + SumOfTotals(st, keys \ {key})

\* C16: the totals of the report add up to the number of records given; each
\* key's total is the number of records of that device, those with no device
\* or an empty one being counted under "-"; and when every status is OK or
\* FAIL, each entry's total is its ok plus its fail.
C16_ReportDropsNoRecord ==
    pc = "reported" =>
        /\ SumOfTotals(stats, DOMAIN stats) = Len(stats_records)
        /\ \A key \in DOMAIN stats :
               /\ stats[key].total = Cardinality(RecordsOf(key))
               /\ stats[key].total > 0
        /\ RecordsOf("-") # {} => "-" \in DOMAIN stats
        /\ (\A k \in 1..Len(stats_records) :
                /\ "status" \in DOMAIN stats_records[k]
                /\ stats_records[k].status \in {"OK", "FAIL"}) =>
               \A key \in DOMAIN stats :
                   stats[key].total = stats[key].ok + stats[key].fail

\* a report of three records, one with no device and one with an empty one
C16_Witness ==
    /\ pc = "reported"
    /\ Len(stats_records) = 3
    /\ \E k \in 1..3 : "device" \notin DOMAIN stats_records[k]
    /\ \E k \in 1..3 : "device" \in DOMAIN stats_records[k]
                         /\ stats_records[k].device = ""
    /\ "-" \in DOMAIN stats /\ stats["-"].total = 2
    /\ Cardinality(DOMAIN stats) = 2


(* ------------------------------- C17 ---------------------------------- *)
\* the canonical identifiers of the devices a scan returned, as they were
\* when it was made
RealsOf(sc) == {device_real(sc.fs, sc.devices[a]) : a \in 1..Len(sc.devices)}

\* C17: no two devices of the list one scan returns have the same
\* device_real.
C17_UniqueCanonical ==
    \A k \in 1..Len(scans) :
        \A a, b \in 1..Len(scans[k].devices) :
            a # b => device_real(scans[k].fs, scans[k].devices[a])
                       # device_real(scans[k].fs, scans[k].devices[b])

\* a scan where a port has a name in by-id and one in /dev: the list holds
\* the by-id name, not the tty it points to, and holds another tty
C17_Witness ==
    \E k \in 1..Len(scans) :
        LET sc == scans[k]
        IN  /\ sc.fs.mode = "by-id"
            /\ \E a, b \in 1..Len(sc.devices) :
                   /\ sc.devices[a].ns = "by-id"
                   /\ sc.devices[b].ns = "tty"
                   /\ device_real(sc.fs, sc.devices[a]) \in Glob(sc.fs, "tty")
                   /\ device_real(sc.fs, sc.devices[a]) \notin Range(sc.devices)

GroupedNames(f) ==
    IF Glob(f, "by-path") # {} THEN Glob(f, "by-path")
    ELSE IF Glob(f, "by-path-v2") # {} THEN Glob(f, "by-path-v2")
    ELSE Glob(f, "by-id")

MatchedEntries ==
    {k \in 1..Len(selected.cfg) :
        \E m \in 1..Len(selected.devices) :
            device_real(selected.fs, selected.devices[m])
                = device_real(selected.fs, selected.cfg[k])}

\* C20: resolve_selected_devices returns one device for each stored name
\* whose canonical identifier is that of a device of the current list, in
\* the order of the stored names: the device of the list with that canonical
\* identifier; stored names without such a device give nothing.
C20_ResolveByCanonical ==
    selected.called =>
        /\ Len(selected.result) = Cardinality(MatchedEntries)
        /\ \A k \in MatchedEntries :
               LET n == Cardinality({k2 \in MatchedEntries : k2 <= k})
               IN  /\ selected.result[n] \in Range(selected.devices)
                   /\ device_real(selected.fs, selected.result[n])
                          = device_real(selected.fs, selected.cfg[k])
        /\ \A n \in 1..Len(selected.result) :
               selected.result[n] \in Range(selected.devices)

\* a stored selection of a tty and of a device that is gone, resolved on a
\* list of by-path names: the tty gives the by-path name, the other nothing
C20_Witness ==
    /\ selected.called
    /\ Len(selected.cfg) = 2 /\ Len(selected.result) = 1
    /\ \E k \in MatchedEntries :
           /\ selected.cfg[k].ns = "tty"
           /\ selected.result[1].ns = "by-path"
           /\ selected.result[1] # selected.cfg[k]
    /\ \E k \in 1..2 : k \notin MatchedEntries

(* ------------------------------- C23 ---------------------------------- *)
\* C23: the run stops early only after FAIL_LIMIT recipients in a row ended
\* Failed: when recipients were skipped, the FAIL_LIMIT positions before the
\* first skipped one are all Failed, and a run with a Sent recipient among
\* any FAIL_LIMIT successive positions skips nobody.
C23_ConsecutiveFailuresTrip ==
    (Returned /\ SkippedSet # {}) =>
        \A q \in Positions :
            (stop_index - FAIL_LIMIT < q /\ q <= stop_index) => Failed(q)

(* ------------------------------- C27 ---------------------------------- *)
\* C27: the list send_numbers returns holds the number of every recipient
\* that did not end Sent, those skipped after the failure limit included.
C27_FailedListHoldsEveryUnsent ==
    Returned =>
        \A q \in Positions : ~Sent(q) => recipients[q] \in Range(failed)

(* ------------------------------- C28 ---------------------------------- *)
\* C28: the run pauses only ahead of a Transport attempt: when it has
\* returned, every call of time.sleep is followed by a call of send_sms for
\* the next recipient, and no pause precedes the skipping of the rest.
C28_PauseOnlyBeforeAttempt ==
    Returned =>
        \A k \in SleepPositions :
            /\ ~Skipped(trace[k].i + 2)
            /\ \E k2 \in (k + 1)..Len(trace) :
                   /\ trace[k2].ev = "send"
                   /\ trace[k2].i = trace[k].i + 1

(* ------------------------------- C29 ---------------------------------- *)
\* C29: the prune at the end of a run removes no record whose time is within
\* the retention window, also when the file could not be read: the records
\* within the window that the file held before the call are the ones it
\* holds after it.
C29_PruneLosesNoRecentRecord ==
    [][pc = "prune" => WithinWindow(history') = WithinWindow(history)]_vars

(* ------------------------------- C24 ---------------------------------- *)
\* the positions in the trace of the calls of progress_cb
CallbackPositions == {k \in 1..Len(trace) : trace[k].ev = "cb"}

\* C24: every call of send_sms comes right after a call of progress_cb for
\* its recipient and, once the run is over, is followed by another call of
\* progress_cb; in every call ok_count + fail_count is at most the count of
\* processed recipients, and from one call to the next neither ok_count nor
\* fail_count goes down.
C24_ProgressBracketsAttempts ==
    /\ \A k \in 1..Len(trace) :
           trace[k].ev = "send" =>
               /\ k > 1 /\ trace[k - 1].ev = "cb" /\ trace[k - 1].i = trace[k].i
               /\ pc \in {"done", "raised"} =>
                      \E k2 \in CallbackPositions : k2 > k
    /\ \A k \in CallbackPositions :
           /\ trace[k].y + trace[k].z <= trace[k].x
           /\ \A k2 \in CallbackPositions :
                  k < k2 => /\ trace[k].y <= trace[k2].y
                            /\ trace[k].z <= trace[k2].z

(* ------------------------------- C26 ---------------------------------- *)
\* the recipients and the modems shown as being sent to
SendingSet == {q \in Positions : Sending(q)}
BusyModems == {d \in DOMAIN modem_status : modem_status[d] = "ENVIANDO"}

\* the recipients whose processing is over
Finished(q) == Sent(q) \/ Failed(q) \/ Skipped(q)

\* one step of the status of the recipient at position q
StatusStep(q) ==
    \/ status_list'[q] = status_list[q]
    \/ Pending(q) /\ status_list'[q] = "ENVIANDO"
    \/ Sending(q) /\ status_list'[q] \in {"OK", "FAIL"}
                  /\ recipient_modems'[q] # "SKIPPED"
    \/ Pending(q) /\ status_list'[q] = "FAIL"
                  /\ recipient_modems'[q] = "SKIPPED"

\* C26: at any time at most one recipient is Sending and at most one modem
\* is ENVIANDO; the status of a recipient goes from Pending to Sending to
\* Sent or Failed, or from Pending to Skipped, and the status and the modem
\* label of a recipient that is Sent, Failed or Skipped never change again.
C26_SingleSequentialWorker ==
    /\ [](Cardinality(SendingSet) <= 1 /\ Cardinality(BusyModems) <= 1)
    /\ [][\A q \in Positions :
              /\ StatusStep(q)
              /\ Finished(q) => /\ status_list'[q] = status_list[q]
                                /\ recipient_modems'[q] = recipient_modems[q]]_vars

\* the limit stopped the run: a Sent and a Failed recipient keep their
\* status and label while a later one is Skipped
C26_Witness ==
    /\ Returned
    /\ \E q1, q2, q3 \in Positions :
           /\ q1 < q3 /\ q2 < q3
           /\ Sent(q1) /\ Failed(q2) /\ Skipped(q3)
           /\ recipient_modems[q1] \in Range(LabelNames)
           /\ recipient_modems[q2] \in Range(LabelNames)

(* ------------------------------- C22 ---------------------------------- *)
\* C22: serving a request to the history API, GET /health or GET /history
\* with any parameters, leaves the lines of the history file as they were.
C22_QueryLeavesStore ==
    [][api' # api => history' = history]_vars

(* ------------------------------- C25 ---------------------------------- *)
\* the calls of append_history of the run whose line reached the file
WrittenAppends == SelectSeq(AppendEvents, LAMBDA e : e.y = 1)

\* C25: when the run and the requests served beside it are over, and no
\* read or write of the file has failed, the history file holds a line of
\* the run for each of the run's calls of append_history.
C25_NoAppendLostToQuery ==
    (pc = "done" /\ api.pc = "idle" /\ faults = 0) =>
        Len(RunLines) >= Len(WrittenAppends)

(* ------------------------------- C30 ---------------------------------- *)
\* C30: with automatic activation on, a call of auto_activate_devices sends
\* the commands to exactly the enumerated modems that the call before it did
\* not enumerate (to all of them in the first call): a modem is activated
\* once for as long as it stays enumerated, and again on the first call that
\* sees it after a call that did not, also when that call saw no modem at all.
C30_ActivatedOncePerAppearance ==
    auto_cfg = "on" =>
        \A t \in 1..Len(ticks) :
            /\ ticks[t].activated \subseteq ticks[t].seen
            /\ \A d \in ticks[t].seen :
                   d \in ticks[t].activated <=>
                       (t = 1 \/ d \notin ticks[t - 1].seen)

(* ------------------------------- C21 ---------------------------------- *)
\* send_numbers has been called and has not yet handed its result on
EngineEntered ==
    pc \in {"recipient", "attempt", "finish", "skip", "prune", "done", "raised"}

\* C21: whenever send_flow has called send_numbers, for the first batch or
\* for a retry, the lists of modems, of sections and of recipients are not
\* empty; and when the saved selection resolves to no modem or send_flow was
\* given no recipient, it returns with nothing to do: no call of send_numbers
\* or of any collaborator, no record, no status, the history file untouched.
C21_NeverRunOnNothing ==
    /\ EngineEntered =>
           /\ devices # << >> /\ sections # << >> /\ recipients # << >>
           /\ flow.attempt >= 1
    /\ (selected.called /\ (selected.result = << >>
                            \/ (flow.attempt = 0 /\ recipients = << >>))) =>
           /\ pc = "returned"
           /\ flow = [attempt |-> 0, total_ok |-> 0, outcome |-> "nothing to do"]
           /\ trace = << >> /\ report_records = << >>
           /\ status_list = << >> /\ recipient_modems = << >>
           /\ history = UsedStore /\ tmpfile = << >>

\* recipients were given and a selection was saved, but the modem it names
\* is gone: send_flow returned with nothing to do
C21_Witness ==
    /\ pc = "returned"
    /\ flow.outcome = "nothing to do"
    /\ recipients # << >>
    /\ selected.called /\ selected.cfg # << >> /\ selected.devices # << >>
    /\ selected.result = << >>

=============================================================================
